---- MODULE Spec2Model ----
(***************************************************************************)
(* State-machine model of packages/nx/src/project-graph/                   *)
(* build-project-graph.ts: one invocation of                               *)
(* buildProjectGraphUsingProjectFileMap, with the dependency phase and the *)
(* metadata phase of updateProjectGraphWithPlugins / applyProjectMetadata. *)
(*                                                                         *)
(* Concurrency is JavaScript's: every step between two awaits is atomic.   *)
(* The suspension points are the provider calls, which settle in any       *)
(* order; the code that follows an await (the addDependency loop, the      *)
(* push to results, the catch blocks) runs to completion as one step.      *)
(*                                                                         *)
(* Spec is one build. SpecStored is a process that invokes the build       *)
(* several times and reads getFileMap; SpecCache is the cache decision of  *)
(* a build and the copy of the cached deps onto its files; SpecProbe is    *)
(* checkCompatibleWithPlugins and SpecNxJson is updatePluginsInNxJson,     *)
(* both of import/utils/check-compatible-with-plugins.                     *)
(***************************************************************************)
EXTENDS Integers, Sequences, FiniteSets, TLC

\* Number of entries of the provider list `plugins`.
MaxPlugins == 2

Plugins == 1..MaxPlugins

\* A provider is identified by its name; the i-th entry of the list is named i.
PluginName(i) == i

\* Projects produced by normalizeProjectNodes, and the known external nodes.
ProjectNames == {"a", "b"}
ExternalNodeNames == {"npm"}
\* A project name that is not a node of the graph.
UnknownProject == "z"

\* ctx.projects[p].implicitDependencies: project b declares a on itself.
ImplicitDependencies == [a |-> <<>>, b |-> <<"a">>]

\* A raw dependency as returned by createDependencies.
Dep(s, t, ty, f) == [source |-> s, target |-> t, type |-> ty, sourceFile |-> f]

DepAB == Dep("a", "b", "static", "a/f1.ts")
DepBNpm == Dep("b", "npm", "static", "b/f2.ts")
DepAZ == Dep("a", UnknownProject, "static", "a/f1.ts")

\* What a createDependencies call may resolve with.
DependencyReturns == { <<DepAB>>, <<DepBNpm, DepAB>>, <<DepAB, DepAZ>>, <<DepAZ, DepBNpm>> }

\* What a createMetadata call may resolve with: the projects whose scalar
\* metadata property the provider sets (to a value of its own).
MetadataReturns == { {"a"}, {"b"}, {"a", UnknownProject} }

\* The value provider i gives to the property, and the value a project declares.
MetadataValue(i) == i
DeclaredValue == 0
DeclaredSource == 0

VARIABLES
    pc,              \* position of the build: "idle", "deps", "meta", "done"
    plugins,         \* the provider list: capabilities of each entry
    errors,          \* buildProjectGraphUsingProjectFileMap: errors (line 101)
    builder,         \* updateProjectGraphWithPlugins: builder (line 308)
    depErrors,       \* updateProjectGraphWithPlugins: errors (line 306)
    depCall,         \* per provider: the createDependencies promise
    graph,           \* applyProjectMetadata: graph (= graphWithDeps, line 390)
    sourceMap,       \* sourceMap, per project: who last set the property
    results,         \* applyProjectMetadata: results (line 429)
    metaErrors,      \* applyProjectMetadata: errors (line 430)
    metaCall,        \* per provider: the createMetadata promise
    mergeLog,        \* the results applied by lines 489-503, in order
    updateResult,    \* what updateProjectGraphWithPlugins returned or threw
    outcome,         \* what buildProjectGraphUsingProjectFileMap returned or threw
    depInvocations,  \* per provider: how often createDependencies was invoked
    metaInvocations, \* per provider: how often createMetadata was invoked
    addLog           \* the calls of builder.addDependency of line 356, in order

\* The module-level variables of lines 51-53.
VARIABLES storedFileMap, storedAllWorkspaceFiles, storedRustReferences

\* A process in which the build is invoked several times.
VARIABLES
    invocations,     \* the builds started, in order: arguments and outcome
    inFlight,        \* the builds started and not yet settled
    fileMapRead      \* what the last call of getFileMap returned, and when

\* The cache decision of lines 117-138 and the file data of lines 229-262.
VARIABLES
    cacheInput,      \* the cache supplied, the invalidation inputs, the file map
    cacheDecision,   \* useCacheData, filesToProcess, cachedFileData
    cachePc,         \* "decide", "providers", "copy", "end"
    contextError,    \* buildProjectGraphUsingContext: error is set (line 238)
    depsGiven,       \* deps of the files of ctx.fileMap when line 244 is reached
    ctxFileDeps      \* deps of the files of ctx.fileMap, by path

\* checkCompatibleWithPlugins.
VARIABLES probeInput, probeResult

\* updatePluginsInNxJson.
VARIABLES
    nxJsonFile,                \* nx.json on disk
    pluginNametoExcludeFiles,  \* the argument, whose sets the function adds to
    nxJsonWrites,              \* calls of writeJsonFile
    updateReturned,            \* whether updatePluginsInNxJson has run
    updateInput                \* nx.json and the argument as they were before the call

buildVars == <<pc, plugins, errors, builder, depErrors, depCall, graph, sourceMap,
               results, metaErrors, metaCall, mergeLog, updateResult, outcome,
               depInvocations, metaInvocations, addLog>>
storedVars == <<storedFileMap, storedAllWorkspaceFiles, storedRustReferences>>
processVars == <<invocations, inFlight, fileMapRead>>
cacheVars == <<cacheInput, cacheDecision, cachePc, contextError, depsGiven, ctxFileDeps>>
probeVars == <<probeInput, probeResult>>
nxVars == <<nxJsonFile, pluginNametoExcludeFiles, nxJsonWrites, updateReturned,
           updateInput>>

\* What a step of the build leaves alone.
outsideBuild == <<processVars, cacheVars, probeVars, nxVars>>

vars == <<buildVars, storedVars, processVars, cacheVars, probeVars, nxVars>>

----------------------------------------------------------------------------
(* Values *)

\* Option values: null, or a present value.
Null == <<>>
Some(x) == <<x>>

WorkspaceValidityError == [kind |-> "WorkspaceValidityError", pluginName |-> 0]
ProcessDependenciesError(name) == [kind |-> "ProcessDependenciesError", pluginName |-> name]
CreateMetadataError(name) == [kind |-> "CreateMetadataError", pluginName |-> name]

\* new AggregateProjectGraphError(errors, partialProjectGraph), thrown.
AggregateProjectGraphError(errs, g) ==
    [kind |-> "AggregateProjectGraphError", errors |-> errs, partialProjectGraph |-> Some(g)]

\* A normal return of a graph.
Returned(g) == [kind |-> "return", errors |-> <<>>, partialProjectGraph |-> Some(g)]

Running == [kind |-> "running", errors |-> <<>>, partialProjectGraph |-> Null]

\* A promise of a provider call.
NotInvoked == [state |-> "notInvoked", deps |-> <<>>, metadata |-> {}]
Pending == [state |-> "pending", deps |-> <<>>, metadata |-> {}]
Rejected == [state |-> "rejected", deps |-> <<>>, metadata |-> {}]
FulfilledDeps(d) == [state |-> "fulfilled", deps |-> d, metadata |-> {}]
FulfilledMetadata(m) == [state |-> "fulfilled", deps |-> <<>>, metadata |-> m]

----------------------------------------------------------------------------
(* ProjectGraphBuilder *)

\* The graph after addExternalNode of the known nodes and normalizeProjectNodes.
InitProjectGraph ==
    [nodes |-> [p \in ProjectNames |-> DeclaredValue],
     externalNodes |-> ExternalNodeNames,
     dependencies |-> <<>>]

InitSourceMap == [p \in ProjectNames |-> DeclaredSource]

SeqToSet(s) == { s[i] : i \in 1..Len(s) }

\* addDependency's check of the endpoints.
KnownEndpoints(b, dep) ==
    /\ dep.source \in DOMAIN b.nodes
    /\ dep.target \in (DOMAIN b.nodes) \cup b.externalNodes

\* addDependency on known endpoints: appends the edge; an identical edge is a no-op.
AddDependency(b, dep) ==
    IF dep \in SeqToSet(b.dependencies)
    THEN b
    ELSE [b EXCEPT !.dependencies = Append(@, dep)]

\* The loop of lines 355-362 over one provider's result: addDependency for each
\* contribution in order; the first rejected one throws out of the loop.
\* `calls` lists the dependencies addDependency was called with.
RECURSIVE AddDependenciesFrom(_, _, _)
AddDependenciesFrom(b, deps, calls) ==
    IF deps = <<>> THEN [builder |-> b, threw |-> FALSE, calls |-> calls]
    ELSE IF ~KnownEndpoints(b, Head(deps))
         THEN [builder |-> b, threw |-> TRUE, calls |-> Append(calls, Head(deps))]
         ELSE AddDependenciesFrom(AddDependency(b, Head(deps)), Tail(deps),
                                  Append(calls, Head(deps)))

Reverse(s) == [i \in 1..Len(s) |-> s[Len(s) + 1 - i]]

\* The contributions applied from the last to the first.
AddDependencies_Reversed(b, deps) == AddDependenciesFrom(b, Reverse(deps), <<>>)

AddDependencies(b, deps) == AddDependenciesFrom(b, deps, <<>>)

\* applyImplicitDependencies(ctx.projects, updatedBuilder)
RECURSIVE AddImplicit(_, _, _)
AddImplicit(b, source, targets) ==
    IF targets = <<>> THEN b
    ELSE AddImplicit(AddDependency(b, Dep(source, Head(targets), "implicit", "null")),
                     source, Tail(targets))

ApplyImplicitDependencies(b) ==
    AddImplicit(AddImplicit(b, "a", ImplicitDependencies["a"]), "b", ImplicitDependencies["b"])

----------------------------------------------------------------------------
(* Metadata merge *)

\* mergeMetadata(sourceMap[project], [null, pluginName], 'metadata', new, existing)
\* for a scalar property: the value applied later replaces the existing one and
\* the source map attributes the property to the provider applied.
MergeMetadata(pluginName, newValue, existingValue, existingSource) ==
    [metadata |-> newValue, source |-> pluginName]

\* A project named by a result gets a node when the graph has none for it.
ApplyResult_CreateNode(st, result) ==
    LET touched == result.metadata \cap DOMAIN st.graph.nodes
    IN [st EXCEPT
          !.graph = [st.graph EXCEPT !.nodes =
                        [p \in DOMAIN st.graph.nodes \cup result.metadata |->
                            IF p \in result.metadata
                            THEN MetadataValue(result.pluginName)
                            ELSE st.graph.nodes[p]]],
          !.sourceMap = [p \in DOMAIN st.sourceMap |->
                            IF p \in touched THEN result.pluginName ELSE st.sourceMap[p]],
          !.log = Append(st.log, [pluginName |-> result.pluginName, projects |-> touched])]

\* Lines 490-502: one buffered result applied to every project it names that is
\* a node of the graph.
ApplyResult(st, result) ==
    LET touched == result.metadata \cap DOMAIN st.graph.nodes
        merged(p) == MergeMetadata(result.pluginName, MetadataValue(result.pluginName),
                                   st.graph.nodes[p], st.sourceMap[p])
    IN [st EXCEPT
          !.graph = [st.graph EXCEPT !.nodes =
                        [p \in DOMAIN st.graph.nodes |->
                            IF p \in touched THEN merged(p).metadata ELSE st.graph.nodes[p]]],
          !.sourceMap = [p \in DOMAIN st.sourceMap |->
                            IF p \in touched THEN merged(p).source ELSE st.sourceMap[p]],
          !.log = Append(st.log, [pluginName |-> result.pluginName, projects |-> touched])]

\* Lines 489-503: the buffered results applied in the order of `results`.
RECURSIVE ApplyResults(_, _)
ApplyResults(st, rs) ==
    IF rs = <<>> THEN st ELSE ApplyResults(ApplyResult(st, Head(rs)), Tail(rs))

----------------------------------------------------------------------------
(* Ends of the three nested functions, after the last await *)

\* The metadata errors are put before the dependency errors.
UpdateProjectGraphWithPluginsEnd_MetadataFirst(dErrors, mErrors, updatedGraph) ==
    LET errs == mErrors \o dErrors
    IN IF Len(errs) > 0
       THEN AggregateProjectGraphError(errs, updatedGraph)
       ELSE Returned(updatedGraph)

\* Lines 403-409: updateProjectGraphWithPlugins.
UpdateProjectGraphWithPluginsEnd(dErrors, mErrors, updatedGraph) ==
    LET errs == dErrors \o mErrors
    IN IF Len(errs) > 0
       THEN AggregateProjectGraphError(errs, updatedGraph)
       ELSE Returned(updatedGraph)

\* The caught error rethrown as it is, with the graph it already carried.
RethrowWithFinalGraph_Stale(error, finalGraph) == error

\* Line 278: the error rethrown by buildProjectGraphUsingContext.
RethrowWithFinalGraph(error, finalGraph) ==
    AggregateProjectGraphError(error.errors, finalGraph)

\* Lines 229-279: buildProjectGraphUsingContext after updateProjectGraphWithPlugins.
BuildProjectGraphUsingContextEnd(c) ==
    LET updatedGraph == c.partialProjectGraph[1]
        finalGraph == ApplyImplicitDependencies(updatedGraph)
    IN IF c.kind = "return"
       THEN Returned(finalGraph)
       ELSE RethrowWithFinalGraph(c, finalGraph)

\* The caught aggregate error rethrown without the collected validity errors.
BuildProjectGraphUsingProjectFileMapEnd_Rethrow(errs, c) ==
    IF c.kind = "AggregateProjectGraphError"
    THEN c
    ELSE IF Len(errs) > 0
         THEN AggregateProjectGraphError(errs, c.partialProjectGraph[1])
         ELSE c

\* Lines 164-181: buildProjectGraphUsingProjectFileMap after
\* buildProjectGraphUsingContext.
BuildProjectGraphUsingProjectFileMapEnd(errs, c) ==
    IF c.kind = "AggregateProjectGraphError"
    THEN AggregateProjectGraphError(errs \o c.errors, c.partialProjectGraph[1])
    ELSE IF Len(errs) > 0
         THEN AggregateProjectGraphError(errs, c.partialProjectGraph[1])
         ELSE c

----------------------------------------------------------------------------
(* Files *)

\* FileData: a path and a content fingerprint.
FileData(f, h) == [file |-> f, hash |-> h]

Hashes == {"h1", "h2"}

\* A FileMap with one file of project a and one file outside every project.
MkFileMap(ha, hr) ==
    [projectFileMap |-> [a |-> <<FileData("a/f1.ts", ha)>>, b |-> <<>>],
     nonProjectFiles |-> <<FileData("root.json", hr)>>]

\* allWorkspaceFiles of a FileMap.
AllFilesOf(fm) == fm.projectFileMap["a"] \o fm.projectFileMap["b"] \o fm.nonProjectFiles

\* The arguments fileMap, allWorkspaceFiles and rustReferences of an invocation.
BuildArguments ==
    [fileMap |-> MkFileMap("h1", "h1"),
     allWorkspaceFiles |-> AllFilesOf(MkFileMap("h1", "h1")),
     rustReferences |-> "refs1"]

----------------------------------------------------------------------------
(* The build *)

TypeOK ==
    /\ pc \in {"idle", "deps", "meta", "done"}
    /\ plugins \in [Plugins -> [createDependencies : BOOLEAN, createMetadata : BOOLEAN]]
    /\ outcome.kind \in {"running", "return", "AggregateProjectGraphError"}

\* No build has been invoked.
BuildIdle ==
    /\ pc = "idle"
    /\ errors = <<>>
    /\ builder = InitProjectGraph
    /\ depErrors = <<>>
    /\ depCall = [p \in Plugins |-> NotInvoked]
    /\ graph = InitProjectGraph
    /\ sourceMap = InitSourceMap
    /\ results = <<>>
    /\ metaErrors = <<>>
    /\ metaCall = [p \in Plugins |-> NotInvoked]
    /\ mergeLog = <<>>
    /\ updateResult = Running
    /\ outcome = Running
    /\ depInvocations = [p \in Plugins |-> 0]
    /\ metaInvocations = [p \in Plugins |-> 0]
    /\ addLog = <<>>

\* Lines 51-53: the stored file map of a fresh process.
StoredIdle ==
    /\ storedFileMap = Null
    /\ storedAllWorkspaceFiles = Null
    /\ storedRustReferences = Null

ProcessIdle ==
    /\ invocations = <<>>
    /\ inFlight = {}
    /\ fileMapRead = Null

CacheIdle ==
    /\ cacheInput = Null
    /\ cacheDecision = Null
    /\ cachePc = "decide"
    /\ contextError = FALSE
    /\ depsGiven = Null
    /\ ctxFileDeps = Null

ProbeIdle == probeInput = Null /\ probeResult = Null

NxIdle ==
    /\ nxJsonFile = Null
    /\ pluginNametoExcludeFiles = Null
    /\ nxJsonWrites = 0
    /\ updateReturned = FALSE
    /\ updateInput = Null

Init ==
    /\ plugins \in [Plugins -> [createDependencies : BOOLEAN, createMetadata : BOOLEAN]]
    /\ BuildIdle
    /\ StoredIdle
    /\ ProcessIdle
    /\ CacheIdle
    /\ ProbeIdle
    /\ NxIdle

\* The filter left out: every provider of the list is invoked.
CreateDependencyPlugins_All == Plugins

\* Lines 314-316: plugins.filter((plugin) => plugin.createDependencies)
CreateDependencyPlugins == { p \in Plugins : plugins[p].createDependencies }

\* Line 457: if (plugin.createMetadata)
CreateMetadataPlugins == { p \in Plugins : plugins[p].createMetadata }

PendingDependencies == { p \in Plugins : depCall[p].state = "pending" }
PendingMetadata == { p \in Plugins : metaCall[p].state = "pending" }

\* Lines 107-113: what assertWorkspaceValidity does. An error of another kind
\* is caught and not collected.
ValidityOutcomes == {"valid", "WorkspaceValidityError", "otherError"}

CollectValidity(v) ==
    IF v = "WorkspaceValidityError" THEN <<WorkspaceValidityError>> ELSE <<>>

\* The file map is stored by the first invocation only.
StoreFileMap_Once(args) ==
    IF storedFileMap = Null
    THEN /\ storedFileMap' = Some(args.fileMap)
         /\ storedAllWorkspaceFiles' = Some(args.allWorkspaceFiles)
         /\ storedRustReferences' = Some(args.rustReferences)
    ELSE UNCHANGED storedVars

\* Lines 91-93: the arguments of the invocation are stored.
StoreFileMap(args) ==
    /\ storedFileMap' = Some(args.fileMap)
    /\ storedAllWorkspaceFiles' = Some(args.allWorkspaceFiles)
    /\ storedRustReferences' = Some(args.rustReferences)

\* buildProjectGraphUsingProjectFileMap up to the first await: lines 91-156,
\* buildProjectGraphUsingContext lines 216-235, updateProjectGraphWithPlugins
\* lines 305-353. Every createDependencies is invoked, in list order, before
\* any of them settles.
Build ==
    /\ pc = "idle"
    /\ \E v \in ValidityOutcomes : errors' = CollectValidity(v)
    /\ builder' = InitProjectGraph
    /\ depErrors' = <<>>
    /\ depCall' = [p \in Plugins |->
                      IF p \in CreateDependencyPlugins THEN Pending ELSE NotInvoked]
    /\ depInvocations' = [p \in Plugins |->
                             depInvocations[p] + IF p \in CreateDependencyPlugins THEN 1 ELSE 0]
    /\ StoreFileMap(BuildArguments)
    /\ pc' = "deps"
    /\ UNCHANGED <<plugins, graph, sourceMap, results, metaErrors, metaCall,
                   mergeLog, updateResult, outcome, metaInvocations, addLog>>
    /\ UNCHANGED outsideBuild

\* A failing provider that takes the other providers' edges with it: the
\* builder is reset when a createDependencies call rejects.
DependenciesSettled_ResetOnThrow(b, errs, p, promise) ==
    IF promise.state = "rejected"
    THEN [builder |-> InitProjectGraph,
          errors |-> Append(errs, ProcessDependenciesError(PluginName(p))),
          calls |-> <<>>]
    ELSE LET r == AddDependencies(b, promise.deps)
         IN [builder |-> r.builder,
             errors |-> IF r.threw
                        THEN Append(errs, ProcessDependenciesError(PluginName(p)))
                        ELSE errs,
             calls |-> r.calls]

\* Lines 346-369: what follows the await of one provider's createDependencies.
DependenciesSettled(b, errs, p, promise) ==
    IF promise.state = "rejected"
    THEN [builder |-> b, errors |-> Append(errs, ProcessDependenciesError(PluginName(p))),
          calls |-> <<>>]
    ELSE LET r == AddDependencies(b, promise.deps)
         IN [builder |-> r.builder,
             errors |-> IF r.threw
                        THEN Append(errs, ProcessDependenciesError(PluginName(p)))
                        ELSE errs,
             calls |-> r.calls]

\* One createDependencies promise settles (rejects, or resolves with a sequence
\* of dependencies) and its continuation runs.
SettleDependencies(p) ==
    /\ pc = "deps"
    /\ depCall[p].state = "pending"
    /\ \E promise \in {Rejected} \cup { FulfilledDeps(d) : d \in DependencyReturns } :
          LET r == DependenciesSettled(builder, depErrors, p, promise)
          IN /\ depCall' = [depCall EXCEPT ![p] = promise]
             /\ builder' = r.builder
             /\ depErrors' = r.errors
             /\ addLog' = addLog \o [i \in 1..Len(r.calls) |->
                                        [pluginName |-> PluginName(p), dep |-> r.calls[i]]]
    /\ UNCHANGED <<pc, plugins, errors, graph, sourceMap, results, metaErrors,
                   metaCall, mergeLog, updateResult, outcome, depInvocations,
                   metaInvocations>>
    /\ UNCHANGED <<storedVars, outsideBuild>>

\* The graph of node normalization passed on instead of the builder's.
GraphWithDeps_Init(b) == InitProjectGraph

\* Line 390: builder.getUpdatedProjectGraph()
GraphWithDeps(b) == b

\* A race instead of a barrier: the phase goes on once any call has settled.
DependenciesBarrier_Race ==
    \/ PendingDependencies = {}
    \/ \E p \in Plugins : depCall[p].state \in {"rejected", "fulfilled"}

\* Line 342: await Promise.all(...) of the createDependencies continuations.
DependenciesBarrier == PendingDependencies = {}

\* Line 477: await Promise.all(promises)
MetadataBarrier == PendingMetadata = {}

\* Promise.all of line 342 resolves: lines 380-401 and applyProjectMetadata
\* lines 429-476. Every createMetadata is invoked, in list order, before any of
\* them settles.
StartMetadata ==
    /\ pc = "deps"
    /\ DependenciesBarrier
    /\ graph' = GraphWithDeps(builder)
    /\ results' = <<>>
    /\ metaErrors' = <<>>
    /\ metaCall' = [p \in Plugins |->
                       IF p \in CreateMetadataPlugins THEN Pending ELSE NotInvoked]
    /\ metaInvocations' = [p \in Plugins |->
                              metaInvocations[p] + IF p \in CreateMetadataPlugins THEN 1 ELSE 0]
    /\ pc' = "meta"
    /\ UNCHANGED <<plugins, errors, builder, depErrors, depCall, sourceMap,
                   mergeLog, updateResult, outcome, depInvocations, addLog>>
    /\ UNCHANGED <<storedVars, outsideBuild>>

\* A result applied to the graph as it arrives, as the dependency phase does.
MetadataSettled_ApplyOnArrival(st, p, promise) ==
    IF promise.state = "rejected"
    THEN [st EXCEPT !.errors = Append(@, CreateMetadataError(PluginName(p)))]
    ELSE ApplyResult([st EXCEPT !.results =
                         Append(@, [metadata |-> promise.metadata, pluginName |-> PluginName(p)])],
                     [metadata |-> promise.metadata, pluginName |-> PluginName(p)])

\* A throwing provider that aborts its siblings: the results buffered so far
\* are dropped.
MetadataSettled_AbortOnThrow(st, p, promise) ==
    IF promise.state = "rejected"
    THEN [st EXCEPT !.errors = Append(@, CreateMetadataError(PluginName(p))),
                    !.results = <<>>]
    ELSE [st EXCEPT !.results =
             Append(@, [metadata |-> promise.metadata, pluginName |-> PluginName(p)])]

\* Lines 460-465: what follows the await of one provider's createMetadata. The
\* result is pushed to `results`; the graph and the source map are not touched.
MetadataSettled(st, p, promise) ==
    IF promise.state = "rejected"
    THEN [st EXCEPT !.errors = Append(@, CreateMetadataError(PluginName(p)))]
    ELSE [st EXCEPT !.results =
             Append(@, [metadata |-> promise.metadata, pluginName |-> PluginName(p)])]

\* One createMetadata promise settles and its continuation runs.
SettleMetadata(p) ==
    /\ pc = "meta"
    /\ metaCall[p].state = "pending"
    /\ \E promise \in {Rejected} \cup { FulfilledMetadata(m) : m \in MetadataReturns } :
          LET r == MetadataSettled([results |-> results, errors |-> metaErrors,
                                    graph |-> graph, sourceMap |-> sourceMap,
                                    log |-> mergeLog], p, promise)
          IN /\ metaCall' = [metaCall EXCEPT ![p] = promise]
             /\ results' = r.results
             /\ metaErrors' = r.errors
             /\ graph' = r.graph
             /\ sourceMap' = r.sourceMap
             /\ mergeLog' = r.log
    /\ UNCHANGED <<pc, plugins, errors, builder, depErrors, depCall, updateResult,
                   outcome, depInvocations, metaInvocations, addLog>>
    /\ UNCHANGED <<storedVars, outsideBuild>>

\* Promise.all of line 477 resolves: lines 479-505, then lines 403-409, then
\* lines 236-279, then lines 158-181.
Finish ==
    /\ pc = "meta"
    /\ MetadataBarrier
    /\ LET merged == ApplyResults([graph |-> graph, sourceMap |-> sourceMap, log |-> mergeLog],
                                  results)
           updated == UpdateProjectGraphWithPluginsEnd(depErrors, metaErrors, merged.graph)
           built == BuildProjectGraphUsingContextEnd(updated)
       IN /\ graph' = merged.graph
          /\ sourceMap' = merged.sourceMap
          /\ mergeLog' = merged.log
          /\ updateResult' = updated
          /\ outcome' = BuildProjectGraphUsingProjectFileMapEnd(errors, built)
    /\ pc' = "done"
    /\ UNCHANGED <<plugins, errors, builder, depErrors, depCall, results,
                   metaErrors, metaCall, depInvocations, metaInvocations, addLog>>
    /\ UNCHANGED <<storedVars, outsideBuild>>

Next ==
    \/ Build
    \/ \E p \in Plugins : SettleDependencies(p)
    \/ StartMetadata
    \/ \E p \in Plugins : SettleMetadata(p)
    \/ Finish

Spec == Init /\ [][Next]_vars

----------------------------------------------------------------------------
(* Vocabulary of the properties *)

Done == pc = "done"

DepThrew(p) == depCall[p].state = "rejected"
DepReturned(p) == depCall[p].state = "fulfilled"
MetaThrew(p) == metaCall[p].state = "rejected"
MetaReturned(p) == metaCall[p].state = "fulfilled"

\* The edges provider p contributed.
Contributed(p) == SeqToSet(depCall[p].deps)

\* A contribution of p that addDependency rejects.
HasRejectedContribution(p) ==
    \E d \in Contributed(p) : ~KnownEndpoints(InitProjectGraph, d)

\* p is recorded as failed in the dependency phase.
DepFailed(p) == DepThrew(p) \/ (DepReturned(p) /\ HasRejectedContribution(p))

EdgesOf(g) == SeqToSet(g.dependencies)

PluginsOf(errs, kind) == { errs[i].pluginName : i \in { j \in 1..Len(errs) : errs[j].kind = kind } }

CountOf(errs, kind) == Cardinality({ j \in 1..Len(errs) : errs[j].kind = kind })

\* The edges declared by the projects' implicitDependencies.
ImplicitEdges ==
    UNION { { Dep(src, ImplicitDependencies[src][i], "implicit", "null") :
                i \in 1..Len(ImplicitDependencies[src]) } : src \in ProjectNames }

NoDuplicates(seq) == \A i, j \in 1..Len(seq) : seq[i] = seq[j] => i = j

\* The providers whose metadata result names project x.
MetaSetters(x) == { p \in Plugins : MetaReturned(p) /\ x \in metaCall[p].metadata }

\* The last entry of the provider list among a non-empty set of providers.
LastInList(S) == CHOOSE p \in S : \A q \in S : q <= p

----------------------------------------------------------------------------
(* C1 *)

DepThrowers == { p \in Plugins : DepThrew(p) }
DepFailures == { p \in Plugins : DepFailed(p) }
NoMetaThrew == \A p \in Plugins : ~MetaThrew(p)

\* What C1 promises of the error raised by updateProjectGraphWithPlugins when
\* the providers of set F are the failing ones.
OneFailureIsolated(F) ==
    /\ updateResult.kind = "AggregateProjectGraphError"
    /\ updateResult.partialProjectGraph # Null
    /\ \A q \in CreateDependencyPlugins \ F :
          Contributed(q) \subseteq EdgesOf(updateResult.partialProjectGraph[1])
    /\ Len(updateResult.errors) = 1
    /\ \E p \in F : updateResult.errors[1] = ProcessDependenciesError(PluginName(p))

\* C1 as stated: if exactly one dependency provider throws and no metadata
\* provider throws, the aggregate error of updateProjectGraphWithPlugins carries
\* every edge of the other providers and exactly one error, naming the thrower.
C1_Original ==
    (Done /\ Cardinality(DepThrowers) = 1 /\ NoMetaThrew) => OneFailureIsolated(DepThrowers)

\* C1 amended: if exactly one dependency provider fails, by throwing or by
\* returning a contribution that addDependency rejects, and no metadata provider
\* throws, the aggregate error carries every edge of the other providers and
\* exactly one ProcessDependenciesError, naming the failing provider.
C1_OneFailingProvider ==
    (Done /\ Cardinality(DepFailures) = 1 /\ NoMetaThrew) => OneFailureIsolated(DepFailures)

\* One provider threw, another returned edges that are all in the partial graph.
C1_Witness ==
    /\ Done /\ NoMetaThrew
    /\ Cardinality(DepFailures) = 1
    /\ DepThrowers = DepFailures
    /\ \E q \in Plugins : DepReturned(q) /\ Contributed(q) # {}
    /\ OneFailureIsolated(DepFailures)

----------------------------------------------------------------------------
(* C2, C3 *)

\* C2: the successful metadata results are merged in the order of the provider
\* list, whatever the order in which the createMetadata calls complete.
C2_MergedInListOrder ==
    \A i, j \in 1..Len(mergeLog) :
        i < j => mergeLog[i].pluginName < mergeLog[j].pluginName

\* C3: when several providers set the scalar property on a project, the value
\* on the node is that of the provider latest in the list, and the source map
\* attributes the property to it, whichever call completes first.
C3_LatestInListWins ==
    Done => \A x \in ProjectNames :
                MetaSetters(x) # {} =>
                    /\ graph.nodes[x] = MetadataValue(LastInList(MetaSetters(x)))
                    /\ sourceMap[x] = PluginName(LastInList(MetaSetters(x)))

----------------------------------------------------------------------------
(* C4, C5 *)

MetadataInvoked == \E p \in Plugins : metaCall[p].state # "notInvoked"

\* C4 as stated: nothing is added to the shared builder until every
\* createDependencies invocation has settled.
C4_Original == PendingDependencies # {} => builder.dependencies = <<>>

\* C4 amended: every edge in the builder comes from a provider whose own call
\* has resolved, and the builder's graph is read (getUpdatedProjectGraph, handed
\* to the metadata providers) only after every createDependencies invocation has
\* settled.
C4_ObservedAfterBarrier ==
    /\ EdgesOf(builder) \subseteq UNION { Contributed(p) : p \in { q \in Plugins : DepReturned(q) } }
    /\ (graph.dependencies # <<>> \/ MetadataInvoked) => PendingDependencies = {}

\* A provider's edges are in the builder while another provider is pending, and
\* nothing has read the builder's graph yet.
C4_Witness ==
    /\ PendingDependencies # {}
    /\ builder.dependencies # <<>>
    /\ graph.dependencies = <<>>
    /\ ~MetadataInvoked

\* C5: no node's metadata is modified until every createMetadata invocation has
\* settled.
C5_MetadataBuffered ==
    PendingMetadata # {} =>
        /\ graph.nodes = InitProjectGraph.nodes
        /\ sourceMap = InitSourceMap
        /\ mergeLog = <<>>

\* A provider has returned metadata for a node while another is pending.
C5_Witness ==
    /\ PendingMetadata # {}
    /\ \E p \in Plugins : MetaReturned(p) /\ "a" \in metaCall[p].metadata
    /\ results # <<>>
    /\ graph.nodes = InitProjectGraph.nodes

----------------------------------------------------------------------------
(* C6 *)

MetaThrowers == { p \in Plugins : MetaThrew(p) }
MetaReturners == { p \in Plugins : MetaReturned(p) }

\* C6: applyProjectMetadata ends with exactly one CreateMetadataError per
\* throwing provider, naming it, and has merged the result of every provider
\* that did not throw.
C6_MetadataFailuresIsolated ==
    Done =>
        /\ Len(metaErrors) = Cardinality(MetaThrowers)
        /\ \A i \in 1..Len(metaErrors) : metaErrors[i].kind = "CreateMetadataError"
        /\ PluginsOf(metaErrors, "CreateMetadataError") = { PluginName(p) : p \in MetaThrowers }
        /\ Len(mergeLog) = Cardinality(MetaReturners)
        /\ \A p \in MetaReturners :
              \E i \in 1..Len(mergeLog) :
                  mergeLog[i] = [pluginName |-> PluginName(p),
                                 projects |-> metaCall[p].metadata \cap ProjectNames]
        /\ \A x \in ProjectNames :
              MetaSetters(x) # {} =>
                  /\ graph.nodes[x] \in { MetadataValue(p) : p \in MetaSetters(x) }
                  /\ sourceMap[x] \in { PluginName(p) : p \in MetaSetters(x) }

\* One metadata provider threw and another's result is on the node.
C6_Witness ==
    /\ Done
    /\ MetaThrowers # {}
    /\ \E p \in MetaReturners : "a" \in metaCall[p].metadata /\ graph.nodes["a"] = MetadataValue(p)
    /\ Len(metaErrors) = 1

----------------------------------------------------------------------------
(* C7, C8 *)

NoProviderThrew == \A p \in Plugins : ~DepThrew(p) /\ ~MetaThrew(p)

\* C7: when no provider throws, the returned graph holds exactly the edges the
\* providers contributed (beside the declared implicit ones), each once, and the
\* metadata the providers contributed, whatever the order of completion: the
\* metadata is that of the merge in list order.
C7_UnionWhateverTheOrder ==
    (Done /\ NoProviderThrew /\ outcome.kind = "return") =>
        LET g == outcome.partialProjectGraph[1]
        IN /\ EdgesOf(g) = UNION { Contributed(p) : p \in Plugins } \cup ImplicitEdges
           /\ NoDuplicates(g.dependencies)
           /\ \A x \in ProjectNames :
                 g.nodes[x] = IF MetaSetters(x) = {} THEN DeclaredValue
                              ELSE MetadataValue(LastInList(MetaSetters(x)))

\* C8: the partial graph of the aggregate error of the provider phases holds no
\* edge contributed only by providers recorded as failed.
C8_OnlyFromSucceeded ==
    updateResult.kind = "AggregateProjectGraphError" =>
        \A e \in EdgesOf(updateResult.partialProjectGraph[1]) :
            \E p \in Plugins : DepReturned(p) /\ ~DepFailed(p) /\ e \in Contributed(p)

----------------------------------------------------------------------------
(* C9, C10 *)

Settled(call) == call.state \in {"rejected", "fulfilled"}

\* C9: with a workspace-validity error collected, both phases still run and the
\* build raises one AggregateProjectGraphError listing the validity error and
\* every error of the two phases; it never returns normally.
C9_ValidityErrorMerged ==
    (Done /\ errors # <<>>) =>
        /\ errors = <<WorkspaceValidityError>>
        /\ \A p \in CreateDependencyPlugins : Settled(depCall[p])
        /\ \A p \in CreateMetadataPlugins : Settled(metaCall[p])
        /\ PluginsOf(depErrors, "ProcessDependenciesError") = { PluginName(p) : p \in DepFailures }
        /\ PluginsOf(metaErrors, "CreateMetadataError") = { PluginName(p) : p \in MetaThrowers }
        /\ outcome.kind = "AggregateProjectGraphError"
        /\ Len(outcome.errors) = 1 + Len(depErrors) + Len(metaErrors)
        /\ SeqToSet(outcome.errors) =
              {WorkspaceValidityError} \cup SeqToSet(depErrors) \cup SeqToSet(metaErrors)

\* A validity error, a failed dependency provider and a failed metadata
\* provider in one build.
C9_Witness ==
    /\ Done
    /\ errors # <<>>
    /\ depErrors # <<>>
    /\ metaErrors # <<>>
    /\ Len(outcome.errors) = 3

\* C10: every AggregateProjectGraphError the build raises carries a graph, and
\* the finalised one: the nodes of normalization, every edge integrated in the
\* dependency phase, and the implicit dependencies.
C10_PartialGraphFinalised ==
    outcome.kind = "AggregateProjectGraphError" =>
        /\ outcome.partialProjectGraph # Null
        /\ DOMAIN outcome.partialProjectGraph[1].nodes = ProjectNames
        /\ outcome.partialProjectGraph[1].externalNodes = ExternalNodeNames
        /\ EdgesOf(builder) \subseteq EdgesOf(outcome.partialProjectGraph[1])
        /\ ImplicitEdges \subseteq EdgesOf(outcome.partialProjectGraph[1])

\* An error raised for a validity error and a failed provider, with edges of
\* the dependency phase in its graph.
C10_Witness ==
    /\ outcome.kind = "AggregateProjectGraphError"
    /\ errors # <<>>
    /\ depErrors # <<>>
    /\ builder.dependencies # <<>>
    /\ ImplicitEdges # {}

----------------------------------------------------------------------------
(* C17 *)

Started == pc \in {"deps", "meta", "done"}
MetadataStarted == pc \in {"meta", "done"}

\* C17: no provider is retried. A provider exposing createDependencies is
\* invoked exactly once in the dependency phase, one exposing createMetadata
\* exactly once in the metadata phase, also when it or a sibling fails; a
\* provider lacking the capability is never invoked.
C17_InvokedExactlyOnce ==
    \A p \in Plugins :
        /\ depInvocations[p] = IF Started /\ plugins[p].createDependencies THEN 1 ELSE 0
        /\ metaInvocations[p] = IF MetadataStarted /\ plugins[p].createMetadata THEN 1 ELSE 0

\* A build is over in which a dependency call and a metadata call failed and a
\* provider lacks createDependencies.
C17_Witness ==
    /\ Done
    /\ \E p \in Plugins : DepThrew(p) /\ depInvocations[p] = 1
    /\ \E p \in Plugins : MetaThrew(p) /\ metaInvocations[p] = 1
    /\ \E p \in Plugins : ~plugins[p].createDependencies /\ depInvocations[p] = 0

----------------------------------------------------------------------------
(* C19 *)

\* C19: no createMetadata is invoked before every createDependencies has
\* settled; the graph handed to the metadata providers holds every edge
\* integrated in the dependency phase; and the metadata phase also runs when
\* dependency providers failed, its errors joining theirs in one aggregate error.
C19_PhasesOrdered ==
    /\ MetadataInvoked => PendingDependencies = {}
    /\ MetadataInvoked => EdgesOf(builder) \subseteq EdgesOf(graph)
    /\ (Done /\ depErrors # <<>>) =>
          /\ \A p \in Plugins : plugins[p].createMetadata => Settled(metaCall[p])
          /\ updateResult.kind = "AggregateProjectGraphError"
          /\ SeqToSet(depErrors) \cup SeqToSet(metaErrors) = SeqToSet(updateResult.errors)
          /\ Len(updateResult.errors) = Len(depErrors) + Len(metaErrors)

\* A dependency provider failed, another contributed edges, and a metadata
\* provider invoked on the graph with these edges failed too.
C19_Witness ==
    /\ Done
    /\ depErrors # <<>>
    /\ metaErrors # <<>>
    /\ builder.dependencies # <<>>
    /\ EdgesOf(builder) \subseteq EdgesOf(graph)
    /\ Len(updateResult.errors) = 2

----------------------------------------------------------------------------
(* C20 *)

\* The calls of addDependency made for provider p, in order.
CallsFor(p) == SelectSeq(addLog, LAMBDA e : e.pluginName = PluginName(p))

\* The number of addDependency calls the loop makes for a returned sequence:
\* up to and including the first rejected contribution.
RECURSIVE CallsExpected(_)
CallsExpected(deps) ==
    IF deps = <<>> THEN 0
    ELSE IF ~KnownEndpoints(InitProjectGraph, Head(deps)) THEN 1
    ELSE 1 + CallsExpected(Tail(deps))

\* C20: the addDependency calls for a provider's result are made only once its
\* createDependencies has resolved, in the order the provider returned the
\* contributions, and are not interleaved with the calls for another provider.
C20_IntegratedInOrder ==
    /\ \A i \in 1..Len(addLog) :
          \E p \in Plugins : addLog[i].pluginName = PluginName(p) /\ DepReturned(p)
    /\ \A p \in Plugins :
          /\ Len(CallsFor(p)) = CallsExpected(depCall[p].deps)
          /\ \A i \in 1..Len(CallsFor(p)) : CallsFor(p)[i].dep = depCall[p].deps[i]
    /\ \A i, j, k \in 1..Len(addLog) :
          (i < j /\ j < k /\ addLog[i].pluginName = addLog[k].pluginName)
              => addLog[j].pluginName = addLog[i].pluginName

\* The second provider of the list resolved first with two contributions, then
\* the first one with two.
C20_Witness ==
    /\ Len(addLog) = 4
    /\ addLog[1].pluginName = PluginName(2) /\ addLog[2].pluginName = PluginName(2)
    /\ addLog[3].pluginName = PluginName(1) /\ addLog[4].pluginName = PluginName(1)
    /\ addLog[1].dep # addLog[2].dep

----------------------------------------------------------------------------
(* A process that invokes the build several times and reads getFileMap *)

MaxBuilds == 2

RustReferences == {"refs1", "refs2"}

\* The arguments an invocation may be given: fileMap, allWorkspaceFiles and
\* rustReferences are independent parameters (lines 81-83).
ArgumentsOfBuilds ==
    { [fileMap |-> MkFileMap(ha, "h1"),
       allWorkspaceFiles |-> AllFilesOf(MkFileMap(hf, "h1")),
       rustReferences |-> r] : ha \in Hashes, hf \in Hashes, r \in RustReferences }

\* Lines 66-73: the value of getFileMap when nothing is stored.
EmptyFileMap == [projectFileMap |-> <<>>, nonProjectFiles |-> <<>>]

\* Lines 55-76: getFileMap. A field that may be null is Null or Some(value).
GetFileMapValue ==
    IF storedFileMap # Null
    THEN [fileMap |-> storedFileMap,
          allWorkspaceFiles |-> storedAllWorkspaceFiles,
          rustReferences |-> storedRustReferences]
    ELSE [fileMap |-> Some(EmptyFileMap),
          allWorkspaceFiles |-> Some(<<>>),
          rustReferences |-> Null]

NoPlugins == [p \in Plugins |-> [createDependencies |-> FALSE, createMetadata |-> FALSE]]

InitStored ==
    /\ plugins = NoPlugins
    /\ BuildIdle
    /\ StoredIdle
    /\ ProcessIdle
    /\ CacheIdle
    /\ ProbeIdle
    /\ NxIdle

\* Lines 91-93 of one more invocation: the statements before the first await.
InvokeBuild ==
    /\ Len(invocations) < MaxBuilds
    /\ \E args \in ArgumentsOfBuilds :
          /\ StoreFileMap(args)
          /\ invocations' = Append(invocations, [args |-> args, outcome |-> "running"])
    /\ inFlight' = inFlight \cup {Len(invocations) + 1}
    /\ UNCHANGED <<buildVars, fileMapRead, cacheVars, probeVars, nxVars>>

\* Lines 140-181: an invocation in flight returns or throws. Nothing after
\* line 93 assigns the stored variables.
SettleBuild ==
    /\ \E i \in inFlight, o \in {"return", "throw"} :
          /\ invocations' = [invocations EXCEPT ![i].outcome = o]
          /\ inFlight' = inFlight \ {i}
    /\ UNCHANGED <<buildVars, storedVars, fileMapRead, cacheVars, probeVars, nxVars>>

\* Lines 55-76: a caller reads getFileMap.
GetFileMap ==
    /\ fileMapRead' = Some([value |-> GetFileMapValue, builds |-> Len(invocations)])
    /\ UNCHANGED <<buildVars, storedVars, invocations, inFlight, cacheVars, probeVars, nxVars>>

NextStored ==
    \/ InvokeBuild
    \/ SettleBuild
    \/ GetFileMap

SpecStored == InitStored /\ [][NextStored]_vars

----------------------------------------------------------------------------
(* C18 *)

\* What getFileMap is to return after the first n invocations have started.
ExpectedFileMap(n) ==
    IF n = 0
    THEN [fileMap |-> Some([projectFileMap |-> <<>>, nonProjectFiles |-> <<>>]),
          allWorkspaceFiles |-> Some(<<>>),
          rustReferences |-> Null]
    ELSE [fileMap |-> Some(invocations[n].args.fileMap),
          allWorkspaceFiles |-> Some(invocations[n].args.allWorkspaceFiles),
          rustReferences |-> Some(invocations[n].args.rustReferences)]

\* C18: whatever builds have started, returned or thrown, getFileMap returns
\* the three arguments of the invocation started last, and before the first
\* build an empty file map, an empty file list and null references; so does
\* every value a caller has read, for the builds started when it read.
C18_StoredFromLatestInvocation ==
    /\ GetFileMapValue = ExpectedFileMap(Len(invocations))
    /\ fileMapRead # Null => fileMapRead[1].value = ExpectedFileMap(fileMapRead[1].builds)

\* Two overlapping builds with different arguments, the first of which has
\* thrown while the second is in flight, and getFileMap read after both.
C18_Witness ==
    /\ Len(invocations) = 2
    /\ invocations[1].args.fileMap # invocations[2].args.fileMap
    /\ invocations[1].args.allWorkspaceFiles # invocations[2].args.allWorkspaceFiles
    /\ invocations[1].args.rustReferences # invocations[2].args.rustReferences
    /\ invocations[1].outcome = "throw"
    /\ inFlight = {2}
    /\ fileMapRead # Null
    /\ fileMapRead[1].builds = 2

\* getFileMap read before any build has started.
C18_WitnessBeforeFirstBuild ==
    /\ fileMapRead # Null
    /\ fileMapRead[1].builds = 0

----------------------------------------------------------------------------
(* The cache decision of buildProjectGraphUsingProjectFileMap *)

\* The invalidation inputs: the combined dependency manifest (line 115), the
\* workspace configuration (105), the compiler root configuration (116) and
\* the names of the projects (95-99).
Manifests == {"deps1", "deps2"}
WorkspaceConfigs == {"nx1", "nx2"}
CompilerConfigs == {"ts1", "ts2"}
ProjectSets == {ProjectNames, ProjectNames \cup {"c"}}

FilePaths == {"a/f1.ts", "root.json"}

\* The deps of a cached FileData: none (Null), or a list of targets.
CachedDeps == {Null, Some(<<>>), Some(<<"b">>)}

\* The FileMapCache of the previous build: the snapshot of the four inputs
\* and, per file path, the fingerprint it had (Null: no entry) and the
\* dependency list resolved for it.
FileMapCaches ==
    { c \in [deps : {"deps1"}, nxJson : {"nx1"}, tsConfig : {"ts1"},
              projectNames : {ProjectNames},
              files : [FilePaths -> {Null} \cup {Some(h) : h \in Hashes}],
              fileDeps : [FilePaths -> CachedDeps]] :
        \A path \in FilePaths : c.files[path] = Null => c.fileDeps[path] = Null }

CacheInputs ==
    [fileMapCache : {Null} \cup {Some(c) : c \in FileMapCaches},
     packageJsonDeps : Manifests,
     nxJson : WorkspaceConfigs,
     rootTsConfig : CompilerConfigs,
     projects : ProjectSets,
     fileMap : {MkFileMap(ha, hr) : ha \in Hashes, hr \in Hashes}]

\* shouldRecomputeWholeGraph of nx-deps-cache.
ShouldRecomputeWholeGraph(cache, packageJsonDeps, projects, nxJson, rootTsConfig) ==
    \/ cache.deps # packageJsonDeps
    \/ cache.nxJson # nxJson
    \/ cache.tsConfig # rootTsConfig
    \/ cache.projectNames # projects

\* A file of the current file map whose cached entry has its fingerprint.
CacheHit(cache, f) == cache.files[f.file] = Some(f.hash)

\* The cached FileData of a hit: path, fingerprint and cached deps.
CachedEntry(cache, f) == [file |-> f.file, hash |-> f.hash, deps |-> cache.fileDeps[f.file]]

\* extractCachedFileData of nx-deps-cache: the files to process keep the
\* shape of the file map; the cached file data hold the cached entries of
\* the hits.
ExtractCachedFileData(fileMap, cache) ==
    [filesToProcess |->
        [projectFileMap |->
            [p \in DOMAIN fileMap.projectFileMap |->
                SelectSeq(fileMap.projectFileMap[p], LAMBDA f : ~CacheHit(cache, f))],
         nonProjectFiles |->
            SelectSeq(fileMap.nonProjectFiles, LAMBDA f : ~CacheHit(cache, f))],
     cachedFileData |->
        [projectFileMap |->
            UNION { { [project |-> p, data |-> CachedEntry(cache, f)] :
                        f \in { g \in SeqToSet(fileMap.projectFileMap[p]) : CacheHit(cache, g) } } :
                    p \in DOMAIN fileMap.projectFileMap },
         nonProjectFiles |->
            { CachedEntry(cache, f) :
                f \in { g \in SeqToSet(fileMap.nonProjectFiles) : CacheHit(cache, g) } }]]

\* Lines 133-136: the cached file data of a build that reuses nothing.
EmptyCachedFileData == [projectFileMap |-> {}, nonProjectFiles |-> {}]

\* A supplied cache is used without asking whether the graph is stale.
UseCacheData_WheneverSupplied(in) == in.fileMapCache # Null

\* Lines 119-127: fileMapCache && !shouldRecomputeWholeGraph(...)
UseCacheData(in) ==
    /\ in.fileMapCache # Null
    /\ ~ShouldRecomputeWholeGraph(in.fileMapCache[1], in.packageJsonDeps, in.projects,
                                  in.nxJson, in.rootTsConfig)

\* The cached file data are taken but every file is processed again.
CacheDecision_ProcessAll(in) ==
    IF UseCacheData(in)
    THEN [useCacheData |-> TRUE,
          filesToProcess |-> in.fileMap,
          cachedFileData |-> ExtractCachedFileData(in.fileMap, in.fileMapCache[1]).cachedFileData]
    ELSE [useCacheData |-> FALSE,
          filesToProcess |-> in.fileMap,
          cachedFileData |-> EmptyCachedFileData]

\* Lines 117-138: filesToProcess and cachedFileData of the build.
CacheDecision(in) ==
    IF UseCacheData(in)
    THEN [useCacheData |-> TRUE,
          filesToProcess |-> ExtractCachedFileData(in.fileMap, in.fileMapCache[1]).filesToProcess,
          cachedFileData |-> ExtractCachedFileData(in.fileMap, in.fileMapCache[1]).cachedFileData]
    ELSE [useCacheData |-> FALSE,
          filesToProcess |-> in.fileMap,
          cachedFileData |-> EmptyCachedFileData]

InitCache ==
    /\ plugins = NoPlugins
    /\ BuildIdle
    /\ StoredIdle
    /\ ProcessIdle
    /\ cacheInput \in {Some(in) : in \in CacheInputs}
    /\ cacheDecision = Null
    /\ cachePc = "decide"
    /\ contextError = FALSE
    /\ depsGiven = Null
    /\ ctxFileDeps = Null
    /\ ProbeIdle
    /\ NxIdle

\* Lines 117-138 of a build given cacheInput.
DecideCache ==
    /\ cachePc = "decide"
    /\ cacheDecision = Null
    /\ cacheDecision' = Some(CacheDecision(cacheInput[1]))
    /\ cachePc' = "providers"
    /\ UNCHANGED <<buildVars, storedVars, processVars, cacheInput, contextError,
                   depsGiven, ctxFileDeps, probeVars, nxVars>>

\* The deps a file may have when updateProjectGraphWithPlugins has settled:
\* the files start without deps, and the providers and the builder hold
\* references to the files of ctx.fileMap.
ProviderDeps == {Null, Some(<<"npm">>)}

\* Lines 216-242: the context is built and the provider phases run; they
\* return, or throw an aggregate error that is kept in error.
ProvidersSettle ==
    /\ cachePc = "providers"
    /\ \E given \in [FilePaths -> ProviderDeps] :
          /\ depsGiven' = Some(given)
          /\ ctxFileDeps' = Some(given)
    /\ \E e \in BOOLEAN : contextError' = e
    /\ cachePc' = "copy"
    /\ UNCHANGED <<buildVars, storedVars, processVars, cacheInput, cacheDecision,
                   probeVars, nxVars>>

\* Lines 249-250, 256-257: the cached entry of a file of the file map that
\* has deps, if there is one.
CachedWithDeps(entries, path) == { e \in entries : e.file = path /\ e.deps # Null }

\* Lines 245-252: the loop over the projects of cachedFileData.projectFileMap.
CopyProjectFileDeps(fileMap, cachedFileData, deps) ==
    [path \in DOMAIN deps |->
        LET cached ==
                CachedWithDeps(
                    { e.data : e \in { x \in cachedFileData.projectFileMap :
                                         /\ x.project \in DOMAIN fileMap.projectFileMap
                                         /\ path \in { f.file : f \in SeqToSet(fileMap.projectFileMap[x.project]) } } },
                    path)
        IN IF cached # {} THEN (CHOOSE e \in cached : TRUE).deps ELSE deps[path]]

\* Lines 254-259: the loop over ctx.fileMap.nonProjectFiles.
CopyNonProjectFileDeps(fileMap, cachedFileData, deps) ==
    [path \in DOMAIN deps |->
        LET cached ==
                IF path \in { f.file : f \in SeqToSet(fileMap.nonProjectFiles) }
                THEN CachedWithDeps(cachedFileData.nonProjectFiles, path)
                ELSE {}
        IN IF cached # {} THEN (CHOOSE e \in cached : TRUE).deps ELSE deps[path]]

\* The cached deps of the project files alone are copied.
CopyCachedFileDeps_ProjectFilesOnly(fileMap, cachedFileData, deps) ==
    CopyProjectFileDeps(fileMap, cachedFileData, deps)

\* Lines 245-260: the cached deps are copied onto the files of ctx.fileMap.
CopyCachedFileDeps(fileMap, cachedFileData, deps) ==
    CopyNonProjectFileDeps(fileMap, cachedFileData,
                           CopyProjectFileDeps(fileMap, cachedFileData, deps))

\* Lines 244-279: buildProjectGraphUsingContext after the provider phases,
\* with or without an error to throw at the end.
CopyCachedDeps ==
    /\ cachePc = "copy"
    /\ ctxFileDeps' = Some(CopyCachedFileDeps(cacheInput[1].fileMap,
                                              cacheDecision[1].cachedFileData,
                                              ctxFileDeps[1]))
    /\ cachePc' = "end"
    /\ UNCHANGED <<buildVars, storedVars, processVars, cacheInput, cacheDecision,
                   contextError, depsGiven, probeVars, nxVars>>

NextCache ==
    \/ DecideCache
    \/ ProvidersSettle
    \/ CopyCachedDeps

SpecCache == InitCache /\ [][NextCache]_vars

----------------------------------------------------------------------------
(* C11, C12 *)

Decided == cacheDecision # Null

\* The files of a FileMap, and the files a CachedFileData holds.
FilesIn(fm) == SeqToSet(AllFilesOf(fm))
HitsIn(cfd) ==
    { FileData(e.file, e.hash) :
        e \in { x.data : x \in cfd.projectFileMap } \cup cfd.nonProjectFiles }

\* A previous cache is supplied and none of the four inputs differs from it.
SnapshotUnchanged(in) ==
    /\ in.fileMapCache # Null
    /\ in.fileMapCache[1].deps = in.packageJsonDeps
    /\ in.fileMapCache[1].nxJson = in.nxJson
    /\ in.fileMapCache[1].tsConfig = in.rootTsConfig
    /\ in.fileMapCache[1].projectNames = in.projects

\* The files whose fingerprint is not the cached one, or that have no entry.
ChangedFiles(in) ==
    { f \in FilesIn(in.fileMap) : in.fileMapCache[1].files[f.file] # Some(f.hash) }

\* C11: the cached data are reused (only the changed files are processed)
\* if and only if a previous cache is supplied and none of the dependency
\* manifest, workspace configuration, compiler configuration and project-name
\* set differs from its snapshot; otherwise the files to process are the full
\* file map and the cached file data are empty.
C11_ReuseAllOrNothing ==
    Decided =>
        LET in == cacheInput[1]
            d == cacheDecision[1]
        IN /\ d.useCacheData <=> SnapshotUnchanged(in)
           /\ ~SnapshotUnchanged(in) =>
                 /\ d.filesToProcess = in.fileMap
                 /\ d.cachedFileData = [projectFileMap |-> {}, nonProjectFiles |-> {}]
           /\ SnapshotUnchanged(in) =>
                 /\ FilesIn(d.filesToProcess) = ChangedFiles(in)
                 /\ HitsIn(d.cachedFileData) = FilesIn(in.fileMap) \ ChangedFiles(in)

\* A cache in which every file has its current fingerprint and whose snapshot
\* differs in the project-name set alone: every file is processed.
C11_Witness ==
    /\ Decided
    /\ cacheInput[1].fileMapCache # Null
    /\ ChangedFiles(cacheInput[1]) = {}
    /\ cacheInput[1].fileMapCache[1].deps = cacheInput[1].packageJsonDeps
    /\ cacheInput[1].fileMapCache[1].nxJson = cacheInput[1].nxJson
    /\ cacheInput[1].fileMapCache[1].tsConfig = cacheInput[1].rootTsConfig
    /\ cacheInput[1].fileMapCache[1].projectNames # cacheInput[1].projects
    /\ cacheDecision[1].filesToProcess = cacheInput[1].fileMap

\* C12: when the cache is reused, no file is both to be processed and a hit
\* of the cached file data; a file cached with its current fingerprint is not
\* processed; a file whose cached fingerprint differs, or that has no cached
\* entry, is processed; and only files of the file map are processed.
C12_Partition ==
    (Decided /\ cacheDecision[1].useCacheData) =>
        LET in == cacheInput[1]
            d == cacheDecision[1]
            cached == in.fileMapCache[1].files
        IN /\ FilesIn(d.filesToProcess) \subseteq FilesIn(in.fileMap)
           /\ \A f \in FilesIn(in.fileMap) :
                 /\ ~(f \in FilesIn(d.filesToProcess) /\ f \in HitsIn(d.cachedFileData))
                 /\ cached[f.file] = Some(f.hash) => f \notin FilesIn(d.filesToProcess)
                 /\ cached[f.file] = Null => f \in FilesIn(d.filesToProcess)
                 /\ (cached[f.file] # Null /\ cached[f.file] # Some(f.hash)) =>
                       f \in FilesIn(d.filesToProcess)

\* A reused cache with one file unchanged, and one whose fingerprint changed.
C12_Witness ==
    /\ Decided
    /\ cacheDecision[1].useCacheData
    /\ \E f, g \in FilesIn(cacheInput[1].fileMap) :
          /\ cacheInput[1].fileMapCache[1].files[f.file] = Some(f.hash)
          /\ cacheInput[1].fileMapCache[1].files[g.file] \notin {Null, Some(g.hash)}
          /\ f \in HitsIn(cacheDecision[1].cachedFileData)
          /\ g \in FilesIn(cacheDecision[1].filesToProcess)

----------------------------------------------------------------------------
(* checkCompatibleWithPlugins *)

MaxErrors == 3

\* An error of a ProjectConfigurationsError. pluginName "" is a missing
\* name; errors holds the first component of each [file, error] pair of an
\* AggregateCreateNodesError, "" for a null file; file is a MergeNodesError's.
ConfigError(k, name, fs, f) == [kind |-> k, pluginName |-> name, errors |-> fs, file |-> f]

ProjectsWithNoNameError == ConfigError("ProjectsWithNoNameError", "", <<>>, "")
AggregateCreateNodesError(name, fs) == ConfigError("AggregateCreateNodesError", name, fs, "")
MergeNodesError(name, f) == ConfigError("MergeNodesError", name, <<>>, f)

ConfigErrors ==
    { ProjectsWithNoNameError,
      AggregateCreateNodesError("plugin1", <<"file1", "file2">>),
      AggregateCreateNodesError("randomPlugin", <<>>),
      MergeNodesError("plugin2", "file2"),
      AggregateCreateNodesError("plugin2", <<"file3", "file2">>),
      AggregateCreateNodesError("plugin1", <<"", "file3">>),
      AggregateCreateNodesError("", <<"file1">>),
      AggregateCreateNodesError("randomPlugin", <<"">>) }

RECURSIVE SeqsUpTo(_, _)
SeqsUpTo(S, n) ==
    IF n = 0 THEN {<<>>}
    ELSE SeqsUpTo(S, n - 1) \cup
         { Append(s, x) : s \in { t \in SeqsUpTo(S, n - 1) : Len(t) = n - 1 }, x \in S }

\* What retrieveProjectConfigurations does: it resolves, or rejects with a
\* ProjectConfigurationsError or with an error of another kind.
Retrievals ==
    { [kind |-> "success", errors |-> <<>>], [kind |-> "Error", errors |-> <<>>] }
    \cup { [kind |-> "ProjectConfigurationsError", errors |-> es] :
             es \in SeqsUpTo(ConfigErrors, MaxErrors) }

ProbeInputs == [loadFails : BOOLEAN, nxJsonReadable : BOOLEAN, retrieval : Retrievals]

\* A JavaScript Set: its elements once each, in insertion order.
SetAdd(set, x) == IF x \in SeqToSet(set) THEN set ELSE Append(set, x)

RECURSIVE SetAddAll(_, _)
SetAddAll(set, xs) ==
    IF xs = <<>> THEN set ELSE SetAddAll(SetAdd(set, Head(xs)), Tail(xs))

\* A JavaScript object keyed by provider name: its entries in insertion order.
HasKey(map, name) == \E i \in 1..Len(map) : map[i].pluginName = name

\* Lines 243-263: findPluginAndFilesWithError.
FindPluginAndFilesWithError(error) ==
    LET pluginName ==
            IF error.kind \in {"AggregateCreateNodesError", "MergeNodesError"}
            THEN error.pluginName ELSE ""
        excludeFiles ==
            IF error.kind = "AggregateCreateNodesError" THEN error.errors
            ELSE IF error.kind = "MergeNodesError" THEN <<error.file>>
            ELSE <<>>
        filtered == SelectSeq(excludeFiles, LAMBDA f : f # "")
    IN IF pluginName = "" \/ Len(filtered) = 0
       THEN Null
       ELSE Some([pluginName |-> pluginName, excludeFiles |-> filtered])

\* The set of a provider is started afresh by each of its errors.
AddExcludeFiles_Overwrite(map, pluginName, excludeFiles) ==
    LET entry == [pluginName |-> pluginName, excludeFiles |-> SetAddAll(<<>>, excludeFiles)]
    IN IF HasKey(map, pluginName)
       THEN [i \in 1..Len(map) |-> IF map[i].pluginName = pluginName THEN entry ELSE map[i]]
       ELSE Append(map, entry)

\* Lines 228-231: pluginNametoExcludeFiles[pluginName] ??= new Set(), then
\* every file is added to it.
AddExcludeFiles(map, pluginName, excludeFiles) ==
    LET withKey == IF HasKey(map, pluginName) THEN map
                   ELSE Append(map, [pluginName |-> pluginName, excludeFiles |-> <<>>])
    IN [i \in 1..Len(withKey) |->
          IF withKey[i].pluginName = pluginName
          THEN [withKey[i] EXCEPT !.excludeFiles = SetAddAll(@, excludeFiles)]
          ELSE withKey[i]]

\* Lines 222-232: the forEach over projectConfigurationsError.errors.
RECURSIVE ForEachError(_, _)
ForEachError(map, errs) ==
    IF errs = <<>> THEN map
    ELSE LET found == FindPluginAndFilesWithError(Head(errs))
         IN IF found = Null
            THEN ForEachError(map, Tail(errs))
            ELSE ForEachError(AddExcludeFiles(map, found[1].pluginName, found[1].excludeFiles),
                              Tail(errs))

ProbeReturned(map) == [kind |-> "return", map |-> map]
ProbeThrew == [kind |-> "throw", map |-> <<>>]

\* An error that is not a ProjectConfigurationsError is passed on.
CheckCompatibleWithPlugins_Rethrow(in) ==
    IF in.loadFails THEN ProbeReturned(<<>>)
    ELSE IF ~in.nxJsonReadable THEN ProbeThrew
    ELSE IF in.retrieval.kind = "ProjectConfigurationsError"
         THEN ProbeReturned(ForEachError(<<>>, in.retrieval.errors))
    ELSE IF in.retrieval.kind = "Error" THEN ProbeThrew
    ELSE ProbeReturned(<<>>)

\* Lines 196-236: checkCompatibleWithPlugins. readNxJson (line 213) is
\* called outside every try block.
CheckCompatibleWithPlugins(in) ==
    IF in.loadFails THEN ProbeReturned(<<>>)
    ELSE IF ~in.nxJsonReadable THEN ProbeThrew
    ELSE IF in.retrieval.kind = "ProjectConfigurationsError"
         THEN ProbeReturned(ForEachError(<<>>, in.retrieval.errors))
    ELSE ProbeReturned(<<>>)

InitProbe ==
    /\ plugins = NoPlugins
    /\ BuildIdle
    /\ StoredIdle
    /\ ProcessIdle
    /\ CacheIdle
    /\ probeInput \in {Some(in) : in \in ProbeInputs}
    /\ probeResult = Null
    /\ NxIdle

Probe ==
    /\ probeResult = Null
    /\ probeResult' = Some(CheckCompatibleWithPlugins(probeInput[1]))
    /\ UNCHANGED <<buildVars, storedVars, processVars, cacheVars, probeInput, nxVars>>

NextProbe == Probe

SpecProbe == InitProbe /\ [][NextProbe]_vars

----------------------------------------------------------------------------
(* C13, C14 *)

Probed == probeResult # Null

\* The probe reached the retrieval, which failed structurally.
StructuralFailure(in) ==
    /\ ~in.loadFails
    /\ in.nxJsonReadable
    /\ in.retrieval.kind = "ProjectConfigurationsError"

\* The files an error cites.
FilesCited(e) ==
    IF e.kind = "AggregateCreateNodesError" THEN SeqToSet(e.errors) \ {""}
    ELSE IF e.kind = "MergeNodesError" THEN {e.file}
    ELSE {}

\* The errors that name a provider and cite a file.
Implicating(errs) == { e \in errs : e.pluginName # "" /\ FilesCited(e) # {} }

\* A returned object as a mapping: its keys, and the files of a key.
KeysOf(map) == { map[i].pluginName : i \in 1..Len(map) }
FilesOf(map, name) ==
    UNION { SeqToSet(map[i].excludeFiles) : i \in { j \in 1..Len(map) : map[j].pluginName = name } }

SameMapping(m1, m2) ==
    /\ KeysOf(m1) = KeysOf(m2)
    /\ \A name \in KeysOf(m1) : FilesOf(m1, name) = FilesOf(m2, name)

Reordered(errs, f) == [i \in 1..Len(errs) |-> errs[f[i]]]

\* C13: on a ProjectConfigurationsError the keys of the returned mapping are
\* exactly the providers named by an aggregate create-nodes error citing a
\* file or by a merge-nodes error, each with the union of the files all such
\* errors cite for it; other errors and aggregate errors citing no file give
\* no key; and the errors in any other order give the same mapping.
C13_MappingOfImplicatedProviders ==
    (Probed /\ StructuralFailure(probeInput[1])) =>
        LET errs == probeInput[1].retrieval.errors
            map == probeResult[1].map
            implicating == Implicating(SeqToSet(errs))
        IN /\ probeResult[1].kind = "return"
           /\ KeysOf(map) = { e.pluginName : e \in implicating }
           /\ \A name \in KeysOf(map) :
                 FilesOf(map, name) =
                     UNION { FilesCited(e) : e \in { x \in implicating : x.pluginName = name } }
           /\ \A i, j \in 1..Len(map) : map[i].pluginName = map[j].pluginName => i = j
           /\ \A i \in 1..Len(map) : NoDuplicates(map[i].excludeFiles)
           /\ \A f \in Permutations(1..Len(errs)) :
                 SameMapping(ForEachError(<<>>, Reordered(errs, f)), map)

\* A merge-nodes error and an aggregate error of plugin2, with an error of
\* another kind: plugin2 is mapped to the files of both.
C13_Witness ==
    /\ Probed
    /\ StructuralFailure(probeInput[1])
    /\ SeqToSet(probeInput[1].retrieval.errors) =
           { ProjectsWithNoNameError,
             MergeNodesError("plugin2", "file2"),
             AggregateCreateNodesError("plugin2", <<"file3", "file2">>) }
    /\ KeysOf(probeResult[1].map) = {"plugin2"}
    /\ FilesOf(probeResult[1].map, "plugin2") = {"file2", "file3"}

C14_WitnessLoadFails ==
    /\ Probed
    /\ probeInput[1].loadFails
    /\ probeInput[1].retrieval.kind = "ProjectConfigurationsError"
    /\ Implicating(SeqToSet(probeInput[1].retrieval.errors)) # {}
    /\ probeResult[1].map = <<>>

----------------------------------------------------------------------------
(* updatePluginsInNxJson *)

MaxEntries == 2

\* An entry of nxJson.plugins: a bare string, or an object with the name
\* under plugin, other properties (options) and an optional exclude list.
StringEntry(name) == [form |-> "string", plugin |-> name, options |-> "", exclude |-> Null]
ObjectEntry(name, opts, excl) ==
    [form |-> "object", plugin |-> name, options |-> opts, exclude |-> excl]

PluginNames == {"plugin1", "plugin2", "other"}

PluginEntries ==
    { StringEntry(n) : n \in PluginNames }
    \cup { ObjectEntry(n, o, e) :
             n \in PluginNames, o \in {"", "opts"},
             e \in {Null, Some(<<"file1", "old">>), Some(<<"old", "old">>)} }

\* nx.json on disk: absent, not parsable, or a document with or without a
\* plugins list.
NxJsonFiles ==
    { [state |-> "absent", plugins |-> Null], [state |-> "unreadable", plugins |-> Null],
      [state |-> "ok", plugins |-> Null] }
    \cup { [state |-> "ok", plugins |-> Some(ps)] : ps \in SeqsUpTo(PluginEntries, MaxEntries) }

\* The argument: an object from provider name to a Set of files.
ExcludeFileSets == { <<>>, <<"file1", "file2">> }

ExcludeEntries ==
    { [pluginName |-> n, excludeFiles |-> fs] : n \in {"plugin1", "plugin2"}, fs \in ExcludeFileSets }

ExcludeMaps ==
    { m \in SeqsUpTo(ExcludeEntries, 2) :
        \A i, j \in 1..Len(m) : m[i].pluginName = m[j].pluginName => i = j }

\* The last entry naming the provider is found instead of the first.
FoundIndex_Last(ps, pluginName) ==
    IF \E i \in 1..Len(ps) : ps[i].plugin = pluginName
    THEN CHOOSE i \in 1..Len(ps) :
            /\ ps[i].plugin = pluginName
            /\ \A j \in (i + 1)..Len(ps) : ps[j].plugin # pluginName
    ELSE 0

\* Lines 275-285: the index of the first entry naming the provider, 0 if none.
FoundIndex(ps, pluginName) ==
    IF \E i \in 1..Len(ps) : ps[i].plugin = pluginName
    THEN CHOOSE i \in 1..Len(ps) :
            /\ ps[i].plugin = pluginName
            /\ \A j \in 1..(i - 1) : ps[j].plugin # pluginName
    ELSE 0

\* Lines 272-293: findPluginWithName. A bare string found is replaced in the
\* list by { plugin: pluginName }.
FindPluginWithName(ps, pluginName) ==
    LET i == FoundIndex(ps, pluginName)
    IN [index |-> i,
        plugins |-> IF i # 0 /\ ps[i].form = "string"
                    THEN [ps EXCEPT ![i] = ObjectEntry(pluginName, "", Null)]
                    ELSE ps]

\* The previous exclude list is dropped.
MergeExclude_Replace(excludeFiles, exclude) == excludeFiles

\* Line 335: (plugin.exclude ?? []).forEach((e) => excludeFiles.add(e))
MergeExclude(excludeFiles, exclude) ==
    SetAddAll(excludeFiles, IF exclude = Null THEN <<>> ELSE exclude[1])

\* Lines 322-337: the callback, for the k-th entry of the argument.
UpdateEntry(st, k) ==
    LET pluginName == st.map[k].pluginName
        excludeFiles == st.map[k].excludeFiles
        found == FindPluginWithName(st.plugins, pluginName)
    IN IF found.index = 0 \/ Len(excludeFiles) = 0
       THEN [plugins |-> found.plugins, map |-> st.map]
       ELSE LET merged == MergeExclude(excludeFiles, found.plugins[found.index].exclude)
            IN [plugins |-> [found.plugins EXCEPT ![found.index].exclude = Some(merged)],
                map |-> [st.map EXCEPT ![k].excludeFiles = merged]]

\* Lines 320-338: Object.entries(pluginNametoExcludeFiles).forEach
RECURSIVE UpdateEntries(_, _)
UpdateEntries(st, k) ==
    IF k > Len(st.map) THEN st ELSE UpdateEntries(UpdateEntry(st, k), k + 1)

\* The update is given up only when both the argument and the list are empty.
NothingToUpdate_Both(file, map) ==
    /\ Len(map) = 0
    /\ (file.plugins = Null \/ Len(file.plugins[1]) = 0)

\* Lines 314-319: !Object.keys(map)?.length || !nxJson?.plugins?.length
NothingToUpdate(file, map) ==
    \/ Len(map) = 0
    \/ file.plugins = Null
    \/ Len(file.plugins[1]) = 0

\* Lines 298-340: updatePluginsInNxJson.
UpdatePluginsInNxJson(file, map) ==
    IF file.state = "absent" THEN [file |-> file, map |-> map, writes |-> 0]
    ELSE IF file.state = "unreadable" THEN [file |-> file, map |-> map, writes |-> 0]
    ELSE IF NothingToUpdate(file, map) THEN [file |-> file, map |-> map, writes |-> 0]
    ELSE LET st == UpdateEntries([plugins |-> IF file.plugins = Null THEN <<>>
                                              ELSE file.plugins[1],
                                  map |-> map], 1)
         IN [file |-> [state |-> "ok", plugins |-> Some(st.plugins)],
             map |-> st.map,
             writes |-> 1]

InitNxJson ==
    /\ plugins = NoPlugins
    /\ BuildIdle
    /\ StoredIdle
    /\ ProcessIdle
    /\ CacheIdle
    /\ ProbeIdle
    /\ nxJsonFile \in {Some(f) : f \in NxJsonFiles}
    /\ pluginNametoExcludeFiles \in {Some(m) : m \in ExcludeMaps}
    /\ nxJsonWrites = 0
    /\ updateReturned = FALSE
    /\ updateInput = Some([file |-> nxJsonFile[1], map |-> pluginNametoExcludeFiles[1]])

UpdateNxJson ==
    /\ ~updateReturned
    /\ LET r == UpdatePluginsInNxJson(nxJsonFile[1], pluginNametoExcludeFiles[1])
       IN /\ nxJsonFile' = Some(r.file)
          /\ pluginNametoExcludeFiles' = Some(r.map)
          /\ nxJsonWrites' = nxJsonWrites + r.writes
    /\ updateReturned' = TRUE
    /\ UNCHANGED <<buildVars, storedVars, processVars, cacheVars, probeVars, updateInput>>

NextNxJson == UpdateNxJson

SpecNxJson == InitNxJson /\ [][NextNxJson]_vars

----------------------------------------------------------------------------
(* C15, C16 *)

\* The document is absent, cannot be read, has no or an empty provider list,
\* or the probe result is empty.
NoActionCase(in) ==
    \/ in.file.state = "absent"
    \/ in.file.state = "unreadable"
    \/ in.file.plugins = Null
    \/ in.file.plugins = Some(<<>>)
    \/ in.map = <<>>

\* C15: when nx.json is absent, cannot be read, has no or an empty provider
\* list, or the probe result is empty, updatePluginsInNxJson leaves the file
\* as it was and does not write it.
C15_NoActionCases ==
    (updateReturned /\ NoActionCase(updateInput[1])) =>
        /\ nxJsonFile[1] = updateInput[1].file
        /\ nxJsonWrites = 0

\* A readable document with a provider the probe would have matched, and an
\* empty probe result: nothing is written.
C15_Witness ==
    /\ updateReturned
    /\ updateInput[1].map = <<>>
    /\ updateInput[1].file.state = "ok"
    /\ updateInput[1].file.plugins # Null
    /\ \E i \in 1..Len(updateInput[1].file.plugins[1]) :
          updateInput[1].file.plugins[1][i] = StringEntry("plugin1")
    /\ nxJsonWrites = 0

\* The exclude entries of a descriptor.
ExcludesOf(entry) == IF entry.exclude = Null THEN {} ELSE SeqToSet(entry.exclude[1])

\* C16: for every probe entry with a non-empty file set whose provider is in
\* the document's list, the (first) descriptor of that provider ends with an
\* exclude list holding exactly its previous entries and the offending
\* files, each once; descriptors of providers the probe result does not name
\* are unchanged, and no descriptor appears for a named provider that is not
\* in the list.
C16_ExcludeIsUnion ==
    (/\ updateReturned
     /\ updateInput[1].file.state = "ok"
     /\ updateInput[1].file.plugins # Null) =>
        LET before == updateInput[1].file.plugins[1]
            after == nxJsonFile[1].plugins[1]
            map == updateInput[1].map
        IN /\ Len(after) = Len(before)
           /\ \A i \in 1..Len(before) : after[i].plugin = before[i].plugin
           /\ \A k \in 1..Len(map) :
                 LET i == FoundIndex(before, map[k].pluginName)
                 IN (i # 0 /\ map[k].excludeFiles # <<>>) =>
                       /\ after[i].exclude # Null
                       /\ SeqToSet(after[i].exclude[1]) =
                              ExcludesOf(before[i]) \cup SeqToSet(map[k].excludeFiles)
                       /\ NoDuplicates(after[i].exclude[1])
                       /\ after[i].options = before[i].options
           /\ \A i \in 1..Len(before) :
                 before[i].plugin \notin KeysOf(map) => after[i] = before[i]

\* plugin1 has a descriptor with an exclude list that overlaps the offending
\* files, next to a descriptor the probe does not name; plugin2 is named by
\* the probe and absent from the list.
C16_Witness ==
    /\ updateReturned
    /\ updateInput[1].file.plugins =
           Some(<<ObjectEntry("other", "opts", Some(<<"old", "old">>)),
                  ObjectEntry("plugin1", "opts", Some(<<"file1", "old">>))>>)
    /\ updateInput[1].map =
           << [pluginName |-> "plugin2", excludeFiles |-> <<"file1", "file2">>],
              [pluginName |-> "plugin1", excludeFiles |-> <<"file1", "file2">>] >>
    /\ nxJsonWrites = 1
    /\ ExcludesOf(nxJsonFile[1].plugins[1][2]) = {"file1", "file2", "old"}

----------------------------------------------------------------------------
(* C21 *)

\* The file has a cached entry with its current fingerprint and a deps list.
CachedHitWithDeps(in, f) ==
    /\ in.fileMapCache[1].files[f.file] = Some(f.hash)
    /\ in.fileMapCache[1].fileDeps[f.file] # Null

\* C21: when the cache is reused, once buildProjectGraphUsingContext is
\* past the provider phases, failed or not, every file of the file map with
\* a cached hit that has a dependency list, project file or not, has that
\* list as its deps, and every file of filesToProcess has the deps the
\* provider phases left it with.
C21_CachedDepsCopied ==
    (cachePc = "end" /\ cacheDecision[1].useCacheData) =>
        LET in == cacheInput[1]
        IN \A f \in FilesIn(in.fileMap) :
              /\ CachedHitWithDeps(in, f) =>
                    ctxFileDeps[1][f.file] = in.fileMapCache[1].fileDeps[f.file]
              /\ f \in FilesIn(cacheDecision[1].filesToProcess) =>
                    ctxFileDeps[1][f.file] = depsGiven[1][f.file]

\* The provider phases failed; the non-project file is a hit whose cached
\* list replaces the deps it was given, the project file has changed and
\* keeps the deps it was given.
C21_Witness ==
    /\ cachePc = "end"
    /\ cacheDecision[1].useCacheData
    /\ contextError
    /\ depsGiven[1] = [path \in FilePaths |-> Some(<<"npm">>)]
    /\ \E f \in SeqToSet(cacheInput[1].fileMap.nonProjectFiles) :
          /\ CachedHitWithDeps(cacheInput[1], f)
          /\ ctxFileDeps[1][f.file] = Some(<<"b">>)
    /\ \E f \in SeqToSet(cacheInput[1].fileMap.projectFileMap["a"]) :
          /\ f \in FilesIn(cacheDecision[1].filesToProcess)
          /\ ctxFileDeps[1][f.file] = Some(<<"npm">>)

----------------------------------------------------------------------------
(* C22 *)

\* The positions of the entries naming a provider, and the first of them.
Matching(ps, name) == { i \in 1..Len(ps) : ps[i].plugin = name }
IsFirstMatch(ps, name, i) == i \in Matching(ps, name) /\ \A j \in Matching(ps, name) : i <= j

\* The document and the argument after the first n entries of the argument.
RECURSIVE AfterEntries(_, _)
AfterEntries(st, n) == IF n = 0 THEN st ELSE UpdateEntry(AfterEntries(st, n - 1), n)

\* C22: a bare-string entry that is the first to name a provider of the
\* probe result is replaced, at its position, by an object naming that
\* provider; handling one probe entry changes no other entry of the list,
\* the list keeps its length, an entry that is not the first match of a
\* named provider is as it was, and so is every later entry of a provider
\* that appears more than once.
C22_BareStringReplacedInPlace ==
    (/\ updateReturned
     /\ updateInput[1].file.state = "ok"
     /\ updateInput[1].file.plugins # Null
     /\ nxJsonWrites = 1) =>
        LET before == updateInput[1].file.plugins[1]
            after == nxJsonFile[1].plugins[1]
            map == updateInput[1].map
            start == [plugins |-> before, map |-> map]
        IN /\ Len(after) = Len(before)
           /\ \A k \in 1..Len(map), i \in 1..Len(before) :
                 (IsFirstMatch(before, map[k].pluginName, i) /\ before[i].form = "string") =>
                     /\ after[i].form = "object"
                     /\ after[i].plugin = map[k].pluginName
                     /\ after[i].options = ""
                     /\ ExcludesOf(after[i]) = SeqToSet(map[k].excludeFiles)
           /\ \A k \in 1..Len(map) :
                 LET pre == AfterEntries(start, k - 1).plugins
                     post == AfterEntries(start, k).plugins
                 IN \A i \in 1..Len(before) :
                       ~IsFirstMatch(pre, map[k].pluginName, i) => post[i] = pre[i]
           /\ \A i \in 1..Len(before) :
                 (\A k \in 1..Len(map) : ~IsFirstMatch(before, map[k].pluginName, i)) =>
                     after[i] = before[i]

\* plugin1 is listed twice as a bare string and named by the probe: the
\* first entry is an object with the offending files, the second is as it was.
C22_Witness ==
    /\ updateReturned
    /\ updateInput[1].file.plugins = Some(<<StringEntry("plugin1"), StringEntry("plugin1")>>)
    /\ updateInput[1].map = << [pluginName |-> "plugin1", excludeFiles |-> <<"file1", "file2">>] >>
    /\ nxJsonFile[1].plugins[1][1] = ObjectEntry("plugin1", "", Some(<<"file1", "file2">>))
    /\ nxJsonFile[1].plugins[1][2] = StringEntry("plugin1")

----------------------------------------------------------------------------
(* C23 *)

\* The stage an error comes from.
StageOf(error) ==
    IF error.kind = "WorkspaceValidityError" THEN 1
    ELSE IF error.kind = "ProcessDependenciesError" THEN 2
    ELSE 3

\* C23: in the error list of the AggregateProjectGraphError the build
\* throws, every workspace-validity error precedes every
\* ProcessDependenciesError and every ProcessDependenciesError precedes
\* every CreateMetadataError, in whatever order the providers settled.
C23_ErrorsOrderedByStage ==
    (Done /\ outcome.kind = "AggregateProjectGraphError") =>
        /\ \A i \in 1..Len(outcome.errors) :
              outcome.errors[i].kind \in
                  {"WorkspaceValidityError", "ProcessDependenciesError", "CreateMetadataError"}
        /\ \A i, j \in 1..Len(outcome.errors) :
              i < j => StageOf(outcome.errors[i]) <= StageOf(outcome.errors[j])

\* A build with a validity error, whose two dependency providers failed in
\* the reverse of their list order, and a metadata provider that threw.
C23_Witness ==
    /\ Done
    /\ outcome.kind = "AggregateProjectGraphError"
    /\ Len(outcome.errors) = 4
    /\ outcome.errors[1] = WorkspaceValidityError
    /\ outcome.errors[2] = ProcessDependenciesError(PluginName(2))
    /\ outcome.errors[3] = ProcessDependenciesError(PluginName(1))
    /\ outcome.errors[4].kind = "CreateMetadataError"

----------------------------------------------------------------------------
(* C24 *)

\* C24: from the graph handed to applyProjectMetadata to the graph it
\* returns, the project nodes, the external nodes and the edges are the
\* same and a project no result names has its metadata as it was; a result
\* naming a project that is not a node creates no node, and only providers
\* that threw have a CreateMetadataError.
C24_OnlyMetadataChanges ==
    MetadataStarted =>
        /\ DOMAIN graph.nodes = DOMAIN GraphWithDeps(builder).nodes
        /\ graph.externalNodes = GraphWithDeps(builder).externalNodes
        /\ graph.dependencies = GraphWithDeps(builder).dependencies
        /\ \A x \in DOMAIN graph.nodes :
              (Done /\ MetaSetters(x) = {}) => graph.nodes[x] = GraphWithDeps(builder).nodes[x]
        /\ UnknownProject \notin DOMAIN graph.nodes
        /\ PluginsOf(metaErrors, "CreateMetadataError") = { PluginName(p) : p \in MetaThrowers }

\* A provider's metadata for a and for a project that is not a node has been
\* applied to a graph with edges: a has the provider's value, b has its own,
\* and there is no metadata error.
C24_Witness ==
    /\ Done
    /\ \E p \in Plugins : MetaReturned(p) /\ metaCall[p].metadata = {"a", UnknownProject}
    /\ MetaSetters("b") = {}
    /\ graph.nodes["a"] # DeclaredValue
    /\ graph.nodes["b"] = DeclaredValue
    /\ graph.dependencies # <<>>
    /\ metaErrors = <<>>

====
